---- MODULE Spec2Model ----
(***************************************************************************)
(* A model of portable-msvc.py: the top-level flow from the manifests to   *)
(* the output directory (with the version selection), the recursive        *)
(* dependency walk (get_package), the checksummed download                 *)
(* (download_with_progress), the .cab reference scan (get_msi_cabs) and    *)
(* the zip extraction loop.                                                *)
(*                                                                         *)
(* The script is sequential, so each part is a state machine of its own    *)
(* over its own variables; a specification runs one part and leaves the    *)
(* variables of the others at their idle values.                           *)
(***************************************************************************)
EXTENDS Integers, Sequences, FiniteSets, TLC

VARIABLES
    \* ---- get_package (lines 274-312)
    packages,                  \* the package index: id -> record
    stack,                     \* the call stack of get_package: frames [package, i]
    already_gotten_packages,   \* the global list of line 275
    total_download,            \* the global counter of line 274
    walked,                    \* ids whose dependency loop was entered, in order
    files,                     \* ids whose payload was extracted under OUTPUT
    dstatus,                   \* "running" | "returned" | "RecursionError" | "exit"
    \* ---- download_with_progress (lines 38-64)
    caller,                    \* the call site of download_with_progress
    payload,                   \* the bytes the server holds under url
    check,                     \* the declared sha256, a string of hex digits
    attempt,                   \* calls of urlopen made so far
    res,                       \* the body the open response has yet to deliver
    total,                     \* int(Content-Length) of the open response
    size,                      \* bytes read from the open response
    f,                         \* the bytes written to the caller's file
    data,                      \* the bytes written to the BytesIO buffer
    partial,                   \* an attempt failed after delivering a block
    returned,                  \* the value returned (when fstatus = "returned")
    extracted,                 \* the caller ran its extraction step on f
    fstatus,                   \* where the call is, or how it ended
    \* ---- get_msi_cabs (lines 68-74)
    msi,                       \* the bytes of the installer
    index,                     \* the generator's index
    cabs,                      \* the names yielded so far
    cstatus,                   \* "scan" | "done" | "UnicodeDecodeError"
    \* ---- the zip extraction loop of get_package (lines 302-307)
    namelist,                  \* z.namelist(): the entry names, in archive order
    zi,                        \* the position of the loop of line 303
    dirs,                      \* the directories that exist, as resolved paths
    written,                   \* the files written, as resolved paths
    zstatus,                   \* "extract" | "done" | the exception raised
    \* ---- the top-level flow (lines 104-238)
    args,                      \* the parsed command line
    msvc_versions,             \* the keys of the dict of line 177
    sdk_versions,              \* the keys of the dict of line 178
    vsix_left,                 \* Vsix packages the loop of line 169 has yet to fetch
    msvc_version,              \* line 198
    sdk_version,               \* line 199
    manifest_fetches,          \* calls of download (line 29) that returned
    payload_downloads,         \* calls of download_with_progress made
    printed,                   \* lines 194-195 printed the versions
    output,                    \* OUTPUT: "absent" | "old" (as found) | "fresh"
    accept,                    \* the answer to the prompt of line 227
    delete,                    \* the answer to the prompt of line 234
    asked_delete,              \* the prompt of line 234 was shown
    exit_code,                 \* "none" while running, then "0" or "1"
    mpc                        \* the section of the script about to run

depsVars == <<packages, stack, already_gotten_packages, total_download, walked,
              files, dstatus>>
fetchVars == <<caller, payload, check, attempt, res, total, size, f, data,
               partial, returned, extracted, fstatus>>
cabVars == <<msi, index, cabs, cstatus>>
zipVars == <<namelist, zi, dirs, written, zstatus>>
mainVars == <<args, msvc_versions, sdk_versions, vsix_left, msvc_version,
              sdk_version, manifest_fetches, payload_downloads, printed, output,
              accept, delete, asked_delete, exit_code, mpc>>
vars == <<depsVars, fetchVars, cabVars, zipVars, mainVars>>

\* What an action of one part leaves alone: the variables of the other parts.
notDeps == <<fetchVars, cabVars, zipVars, mainVars>>
notFetch == <<depsVars, cabVars, zipVars, mainVars>>
notCabs == <<depsVars, fetchVars, zipVars, mainVars>>
notZip == <<depsVars, fetchVars, cabVars, mainVars>>
notMain == <<depsVars, fetchVars, cabVars, zipVars>>

None == "None"

(***************************************************************************)
(* Generic helpers.                                                        *)
(***************************************************************************)
Range(s) == {s[i] : i \in 1..Len(s)}

NoDuplicates(s) == \A i, j \in 1..Len(s) : i # j => s[i] # s[j]

Count(s, x) == Cardinality({i \in 1..Len(s) : s[i] = x})

\* All sequences over S of length at most n.
SeqsUpTo(S, n) == UNION {[1..k -> S] : k \in 0..n}

Min(a, b) == IF a < b THEN a ELSE b

(***************************************************************************)
(* get_package: the dependency walk.                                       *)
(***************************************************************************)
NumIds == 3
MaxDeps == 2
\* CPython raises RecursionError when the call stack passes its recursion limit
\* (1000 frames by default); a dependency cycle reaches any limit, so the
\* model uses a small one that is still deeper than every acyclic walk.
RecursionLimit == 5

Ids == 1..NumIds

\* The key an object entry sits under: the code never reads it, so one key per
\* id, different from the id, is enough.
KeyOf(id) == (id % NumIds) + 1

\* A dependency map entry (line 288): dep_val is a version string, an object
\* with an "id", or an object without one.
StrEntry(k) == [key |-> k, val |-> "str"]
ObjEntry(q) == [key |-> KeyOf(q), val |-> "obj", id |-> q]
NoIdEntry(k) == [key |-> k, val |-> "objnoid"]

EntryOf(kind, q) ==
    CASE kind = "str" -> StrEntry(q)
      [] kind = "obj" -> ObjEntry(q)
      [] OTHER -> NoIdEntry(q)

\* The dependency maps of one package: at most MaxDeps entries with distinct
\* keys, in manifest order, all of the same kind.
DepMaps ==
    {[i \in 1..Len(qs) |-> EntryOf(kind, qs[i])] :
        qs \in {s \in SeqsUpTo(Ids, MaxDeps) : NoDuplicates(s)},
        kind \in {"str", "obj", "objnoid"}}

\* The variant of a package that line 285 selects: its type, whether it has
\* a "payloads" key, and its dependency map.
PackageRecords ==
    {[type |-> t[1], payloads |-> t[2], dependencies |-> d] :
        t \in {<<"Vsix", TRUE>>, <<"Component", FALSE>>}, d \in DepMaps}

\* Lines 289-292: the ids a dependency entry makes get_package recurse into
\* (one, or none for an object without an "id").
DepTarget(e) ==
    CASE e.val = "str" -> {e.key}
      [] e.val = "obj" -> {e.id}
      [] OTHER -> {}

\* Line 295: the packages whose payloads are downloaded and extracted.
Extractable(p) == p.payloads /\ p.type = "Vsix"

\* The root the loop of lines 311-312 passes to get_package.
Root == 1

Top == stack[Len(stack)]
Pop == SubSeq(stack, 1, Len(stack) - 1)
SetTopIndex(i) == [stack EXCEPT ![Len(stack)] = [package |-> Top.package, i |-> i]]

\* A call returns: the frame goes, and the run is over with the root's frame.
Return(stk) ==
    /\ stack' = stk
    /\ dstatus' = IF stk = <<>> THEN "returned" ELSE "running"

\* Lines 282-285: the membership test, then the variant lookup.
GetPackageEnter ==
    /\ dstatus = "running"
    /\ stack # <<>>
    /\ Top.i = 0
    /\ IF Top.package \in Range(already_gotten_packages)
         THEN /\ Return(Pop)
              /\ UNCHANGED walked
         ELSE /\ stack' = SetTopIndex(1)
              /\ walked' = Append(walked, Top.package)
              /\ UNCHANGED dstatus
    /\ UNCHANGED <<packages, already_gotten_packages, total_download, files>>
    /\ UNCHANGED notDeps

\* Lines 286-292: one iteration of the loop over the dependency map.
GetPackageDependency ==
    /\ dstatus = "running"
    /\ stack # <<>>
    /\ Top.i \in 1..Len(packages[Top.package].dependencies)
    /\ LET target == DepTarget(packages[Top.package].dependencies[Top.i])
       IN  IF target = {}
             THEN /\ stack' = SetTopIndex(Top.i + 1)
                  /\ UNCHANGED dstatus
             ELSE IF Len(stack) >= RecursionLimit
                    THEN /\ dstatus' = "RecursionError"
                         /\ UNCHANGED stack
                    ELSE /\ \E q \in target :
                              stack' = Append(SetTopIndex(Top.i + 1),
                                              [package |-> q, i |-> 0])
                         /\ UNCHANGED dstatus
    /\ UNCHANGED <<packages, already_gotten_packages, total_download, walked, files>>
    /\ UNCHANGED notDeps

\* Lines 295-308: a package that is not extractable returns at line 296;
\* the payload of the others is downloaded (the digest matches or line 63
\* ends the run), extracted, and the id is appended to the list.
GetPackagePayloads ==
    /\ dstatus = "running"
    /\ stack # <<>>
    /\ Top.i > Len(packages[Top.package].dependencies)
    /\ IF ~Extractable(packages[Top.package])
         THEN /\ Return(Pop)
              /\ UNCHANGED <<already_gotten_packages, total_download, files>>
         ELSE \E digestMatches \in BOOLEAN :
                IF digestMatches
                  THEN /\ total_download' = total_download + 1
                       /\ files' = files \cup {Top.package}
                       /\ already_gotten_packages' =
                              Append(already_gotten_packages, Top.package)
                       /\ Return(Pop)
                  ELSE /\ dstatus' = "exit"
                       /\ UNCHANGED <<stack, already_gotten_packages,
                                      total_download, files>>
    /\ UNCHANGED <<packages, walked>>
    /\ UNCHANGED notDeps

DepsInit ==
    /\ packages \in [Ids -> PackageRecords]
    /\ stack = <<[package |-> Root, i |-> 0]>>
    /\ already_gotten_packages = <<>>
    /\ total_download = 0
    /\ walked = <<>>
    /\ files = {}
    /\ dstatus = "running"

DepsIdle ==
    /\ packages = [p \in Ids |->
                     [type |-> "Component", payloads |-> FALSE, dependencies |-> <<>>]]
    /\ stack = <<>>
    /\ already_gotten_packages = <<>>
    /\ total_download = 0
    /\ walked = <<>>
    /\ files = {}
    /\ dstatus = "returned"

(***************************************************************************)
(* download_with_progress: the checksummed, retried download.              *)
(***************************************************************************)
MaxPayloadLen == 3
MaxAttempts == 2
BlockSize == 1048576

Bytes == {1, 2}
Payloads == SeqsUpTo(Bytes, MaxPayloadLen)

\* hashlib.sha256(data).hexdigest(): a digest is taken to be collision-free,
\* so it is modelled by an injective code of the bytes, written as hexdigest
\* writes it: in lowercase hexadecimal digits.
RECURSIVE Code(_)
Code(d) ==
    IF d = <<>> THEN 0
    ELSE d[Len(d)] + Cardinality(Bytes) * Code(SubSeq(d, 1, Len(d) - 1))

HexDigits == <<"0", "1", "2", "3", "4", "5", "6", "7", "8", "9",
               "a", "b", "c", "d", "e", "f">>

RECURSIVE Hex(_)
Hex(n) ==
    IF n < Len(HexDigits) THEN <<HexDigits[n + 1]>>
    ELSE Append(Hex(n \div Len(HexDigits)), HexDigits[(n % Len(HexDigits)) + 1])

sha256hex(d) == Hex(Code(d))

LowerChar(c) ==
    CASE c = "A" -> "a" [] c = "B" -> "b" [] c = "C" -> "c"
      [] c = "D" -> "d" [] c = "E" -> "e" [] c = "F" -> "f"
      [] OTHER -> c

UpperChar(c) ==
    CASE c = "a" -> "A" [] c = "b" -> "B" [] c = "c" -> "C"
      [] c = "d" -> "D" [] c = "e" -> "E" [] c = "f" -> "F"
      [] OTHER -> c

\* str.lower() and str.upper() on a string of hex digits.
Lower(str) == [i \in 1..Len(str) |-> LowerChar(str[i])]
Upper(str) == [i \in 1..Len(str) |-> UpperChar(str[i])]

\* The sha256 fields a manifest may declare: the digest of some payload, in
\* lowercase or in uppercase.
Checks == {sha256hex(d) : d \in Payloads} \cup {Upper(sha256hex(d)) : d \in Payloads}

\* The call sites: lines 157, 299, 355/365 and 391.
Callers == {"get_package_manifest", "get_package", "sdk", "runtimedebug"}

\* Line 62: the comparison of the declared checksum with the digest.
HashMatchesInverted(chk, d) == Lower(chk) # sha256hex(d)

HashMatches(chk, d) == Lower(chk) = sha256hex(d)

\* Line 63 runs exit(f"... {pkg}"): pkg is the loop variable of line 311, not
\* yet bound when get_package_manifest calls (line 170), so the message
\* itself raises NameError there; either way the run ends.
HashMismatchOutcome == IF caller = "get_package_manifest" THEN "NameError" ELSE "exit"

\* Line 44 raises URLError: the loop of line 41 goes round again (line 58).
UrlOpenFails ==
    /\ fstatus = "open"
    /\ attempt < MaxAttempts
    /\ attempt' = attempt + 1
    /\ UNCHANGED <<caller, payload, check, res, total, size, f, data, partial,
                   returned, extracted, fstatus>>
    /\ UNCHANGED notFetch

\* Lines 44-46: the response arrives. Its Content-Length header is absent
\* (int(None) raises TypeError, which nothing catches), or 0, or the payload's
\* length; an HTTP response delivers at most Content-Length bytes.
UrlOpen ==
    /\ fstatus = "open"
    /\ attempt < MaxAttempts
    /\ attempt' = attempt + 1
    /\ \E header \in {"absent", "zero", "length"} :
          IF header = "absent"
            THEN /\ fstatus' = "TypeError"
                 /\ UNCHANGED <<res, total, size>>
            ELSE /\ total' = IF header = "zero" THEN 0 ELSE Len(payload)
                 /\ res' = SubSeq(payload, 1, total')
                 /\ size' = 0
                 /\ fstatus' = "read"
    /\ UNCHANGED <<caller, payload, check, f, data, partial, returned, extracted>>
    /\ UNCHANGED notFetch

\* Lines 48-55: a non-empty block of at most BlockSize bytes is written to the
\* file and to the buffer; the percentage divides by total.
ReadBlock ==
    /\ fstatus = "read"
    /\ res # <<>>
    /\ \E n \in 1..Min(BlockSize, Len(res)) :
          /\ f' = f \o SubSeq(res, 1, n)
          /\ data' = data \o SubSeq(res, 1, n)
          /\ size' = size + n
          /\ res' = SubSeq(res, n + 1, Len(res))
    /\ fstatus' = IF total = 0 THEN "ZeroDivisionError" ELSE "read"
    /\ UNCHANGED <<caller, payload, check, attempt, total, partial, returned,
                   extracted>>
    /\ UNCHANGED notFetch

\* Line 48 raises: URLError is caught by line 57 and the loop of line 41 goes
\* round again with the file and the buffer as they are; any other exception
\* (IncompleteRead, ConnectionResetError, a timeout) is not caught.
ReadFails ==
    /\ fstatus = "read"
    /\ \E caught \in BOOLEAN :
          IF caught
            THEN /\ fstatus' = "open"
                 /\ partial' = (partial \/ size > 0)
            ELSE /\ fstatus' = "error"
                 /\ UNCHANGED partial
    /\ UNCHANGED <<caller, payload, check, attempt, res, total, size, f, data,
                   returned, extracted>>
    /\ UNCHANGED notFetch

\* Lines 49-50 and 56-64: the empty block ends both loops; the digest of the
\* buffer is compared with the declared checksum.
ReadEnd ==
    /\ fstatus = "read"
    /\ res = <<>>
    /\ IF HashMatches(check, data)
         THEN /\ fstatus' = "returned"
              /\ returned' = data
         ELSE /\ fstatus' = HashMismatchOutcome
              /\ UNCHANGED returned
    /\ UNCHANGED <<caller, payload, check, attempt, res, total, size, f, data,
                   partial, extracted>>
    /\ UNCHANGED notFetch

\* The step the caller runs on the file once the call has returned:
\* ZipFile(f) (lines 159, 302), msiexec (line 371), expand (line 393).
Extract ==
    /\ fstatus = "returned"
    /\ ~extracted
    /\ extracted' = TRUE
    /\ UNCHANGED <<caller, payload, check, attempt, res, total, size, f, data,
                   partial, returned, fstatus>>
    /\ UNCHANGED notFetch

FetchInit ==
    /\ caller \in Callers
    /\ payload \in Payloads
    /\ check \in Checks
    /\ attempt = 0
    /\ res = <<>> /\ total = 0 /\ size = 0
    /\ f = <<>> /\ data = <<>>
    /\ partial = FALSE
    /\ returned = <<>>
    /\ extracted = FALSE
    /\ fstatus = "open"

FetchIdle ==
    /\ caller = None /\ payload = <<>> /\ check = <<>> /\ attempt = 0
    /\ res = <<>> /\ total = 0 /\ size = 0 /\ f = <<>> /\ data = <<>>
    /\ partial = FALSE /\ returned = <<>> /\ extracted = FALSE
    /\ fstatus = "idle"

(***************************************************************************)
(* get_msi_cabs: the scan of an installer for ".cab" references.           *)
(***************************************************************************)
MaxSegments == 3
SearchStep == 4
CabNameStart == 32

\* b".cab"
Marker == <<46, 99, 97, 98>>

Fill(b, n) == [i \in 1..n |-> b]

\* The installers scanned: up to MaxSegments pieces, each the marker, a run of
\* 'A' as long as a name or shorter, a '.', or a byte that is not ASCII.
Segments == {Marker, Fill(65, CabNameStart), Fill(65, 3), <<46>>, <<200>>}

RECURSIVE Concat(_)
Concat(ss) == IF ss = <<>> THEN <<>> ELSE Head(ss) \o Concat(Tail(ss))

Installers == {Concat(ss) : ss \in SeqsUpTo(Segments, MaxSegments)}

\* Whether sub sits in buf at the 0-based offset i.
MatchesAt(buf, sub, i) ==
    /\ i >= 0
    /\ i + Len(sub) <= Len(buf)
    /\ \A k \in 1..Len(sub) : buf[i + k] = sub[k]

\* bytes.find(sub, start): the lowest 0-based offset >= start at which sub
\* occurs, or -1.
Find(buf, sub, start) ==
    LET hits == {i \in start..(Len(buf) - Len(sub)) : MatchesAt(buf, sub, i)}
    IN  IF hits = {} THEN -1
        ELSE CHOOSE i \in hits : \A j \in hits : i <= j

\* A slice bound as Python clamps it: a negative one counts from the end.
SliceBound(n, len) ==
    IF n < 0 THEN (IF n + len < 0 THEN 0 ELSE n + len)
    ELSE Min(n, len)

\* buf[a:b]
PySlice(buf, a, b) ==
    LET lo == SliceBound(a, Len(buf))
        hi == SliceBound(b, Len(buf))
    IN  IF lo < hi THEN SubSeq(buf, lo + 1, hi) ELSE <<>>

\* bytes.decode("ascii") succeeds on bytes below 128 only.
IsAscii(bs) == \A i \in 1..Len(bs) : bs[i] < 128

\* Line 71: where the next search starts.
SearchStart(i) == i + SearchStep

\* Line 74: the bytes taken as the name of the cab found at offset i.
CabNameWithoutMarker(buf, i) == PySlice(buf, i - CabNameStart, i)

CabName(buf, i) == PySlice(buf, i - CabNameStart, i + SearchStep)

\* Lines 71-74, a match: the name is decoded and yielded.
CabScanYield ==
    /\ cstatus = "scan"
    /\ LET found == Find(msi, Marker, SearchStart(index))
       IN  /\ found >= 0
           /\ index' = found
           /\ IF IsAscii(CabName(msi, found))
                THEN /\ cabs' = Append(cabs, CabName(msi, found))
                     /\ UNCHANGED cstatus
                ELSE /\ cstatus' = "UnicodeDecodeError"
                     /\ UNCHANGED cabs
    /\ UNCHANGED msi
    /\ UNCHANGED notCabs

\* Lines 71-73, no match: the generator returns.
CabScanReturn ==
    /\ cstatus = "scan"
    /\ Find(msi, Marker, SearchStart(index)) < 0
    /\ index' = -1
    /\ cstatus' = "done"
    /\ UNCHANGED <<msi, cabs>>
    /\ UNCHANGED notCabs

\* Line 357: list(get_msi_cabs(data)) on an installer; line 69.
CabsInit ==
    /\ msi \in Installers
    /\ index = 0
    /\ cabs = <<>>
    /\ cstatus = "scan"

CabsIdle ==
    /\ msi = <<>> /\ index = 0 /\ cabs = <<>> /\ cstatus = "idle"

(***************************************************************************)
(* The zip extraction loop of get_package.                                 *)
(*                                                                         *)
(* An entry name is the sequence of its path components and of the "/"     *)
(* between them: "Contents/a/b.txt" is <<"Contents", "/", "a", "/",        *)
(* "b.txt">>. A path is the sequence of its components.                    *)
(***************************************************************************)
MaxEntries == 3

EntryNames ==
    { <<"Contents", "/", "a", "/", "b.txt">>,
      <<"Other", "/", "c.txt">>,
      <<"Contents", "/", "..", "/", "evil.txt">>,
      <<"Contents", "/", "a">>,
      <<"Contents", "/">>,
      <<"ContentsX", "/", "d.txt">> }

\* OUTPUT (line 20), relative to the working directory.
OUTPUT == <<"msvc">>

\* Line 304: name.startswith("Contents/")
StartsWithContents(name) ==
    Len(name) >= 2 /\ name[1] = "Contents" /\ name[2] = "/"

\* Path(name): the components, without the separators and the "." ones;
\* pathlib keeps "..".
RECURSIVE PathParts(_)
PathParts(name) ==
    IF name = <<>> THEN <<>>
    ELSE IF Head(name) \in {"/", "."} THEN PathParts(Tail(name))
    ELSE <<Head(name)>> \o PathParts(Tail(name))

\* Line 305: OUTPUT / Path(name).relative_to("Contents")
OutPath(name) == OUTPUT \o Tail(PathParts(name))

\* out.parent, which pathlib takes from the text of the path.
Parent(path) == IF path = <<>> THEN <<>> ELSE SubSeq(path, 1, Len(path) - 1)

\* The place the operating system resolves a path to, from the working
\* directory: ".." undoes the component before it, or steps above the
\* working directory.
RECURSIVE Resolve(_)
Resolve(path) ==
    IF path = <<>> THEN <<>>
    ELSE LET before == Resolve(Parent(path))
             last == path[Len(path)]
         IN  IF last = ".." /\ before # <<>> /\ before[Len(before)] # ".."
               THEN Parent(before)
               ELSE Append(before, last)

Prefixes(path) == {SubSeq(path, 1, k) : k \in 0..Len(path)}

\* The directories above the working directory exist.
IsDir(place) == place \in dirs \/ \A k \in 1..Len(place) : place[k] = ".."

\* Lines 303-307, one entry: an entry outside "Contents/" is passed over;
\* for the others the parent directories are made (which fails where a file
\* is in the way) and the file is written (which fails on a directory).
ExtractEntry ==
    /\ zstatus = "extract"
    /\ zi <= Len(namelist)
    /\ zi' = zi + 1
    /\ LET name == namelist[zi]
           out == Resolve(OutPath(name))
           parent == Resolve(Parent(OutPath(name)))
       IN  IF ~StartsWithContents(name)
             THEN UNCHANGED <<dirs, written, zstatus>>
             ELSE IF Prefixes(parent) \cap written # {}
               THEN /\ zstatus' = "FileExistsError"
                    /\ UNCHANGED <<dirs, written>>
               ELSE /\ dirs' = dirs \cup Prefixes(parent)
                    /\ IF IsDir(out) \/ out \in dirs'
                         THEN /\ zstatus' = "IsADirectoryError"
                              /\ UNCHANGED written
                         ELSE /\ written' = written \cup {out}
                              /\ UNCHANGED zstatus
    /\ UNCHANGED namelist
    /\ UNCHANGED notZip

\* The loop of line 303 is over.
ExtractDone ==
    /\ zstatus = "extract"
    /\ zi > Len(namelist)
    /\ zstatus' = "done"
    /\ UNCHANGED <<namelist, zi, dirs, written>>
    /\ UNCHANGED notZip

\* Line 238 has made OUTPUT; line 302 opens the archive.
ZipInit ==
    /\ namelist \in SeqsUpTo(EntryNames, MaxEntries)
    /\ zi = 1
    /\ dirs = {<<>>, OUTPUT}
    /\ written = {}
    /\ zstatus = "extract"

ZipIdle ==
    /\ namelist = <<>> /\ zi = 1 /\ dirs = {} /\ written = {}
    /\ zstatus = "idle"

(***************************************************************************)
(* The top-level flow: manifests, complete manifest, versions, license,    *)
(* output directory.                                                       *)
(*                                                                         *)
(* A version or an answer is a Python str: the sequence of its characters, *)
(* a version's as code points, so that they compare as Python compares.    *)
(***************************************************************************)
MaxVsixPackages == 2

\* "14.29", "14.38", "14.40", "14.9" and "14.50"
v14_29 == <<49, 52, 46, 50, 57>>
v14_38 == <<49, 52, 46, 51, 56>>
v14_40 == <<49, 52, 46, 52, 48>>
v14_9 == <<49, 52, 46, 57>>
v14_50 == <<49, 52, 46, 53, 48>>
\* "19041", "22621" and "20348"
sdk19041 == <<49, 57, 48, 52, 49>>
sdk22621 == <<50, 50, 54, 50, 49>>
sdk20348 == <<50, 48, 51, 52, 56>>

MsvcVersionPool == {v14_29, v14_38, v14_40, v14_9}
SdkVersionPool == {sdk19041, sdk22621}

\* The value of an option that was not given (None, falsy like "").
NotGiven == <<>>

Answers == {<<>>, <<"y">>, <<"Y">>, <<"n">>, <<"y", "e", "s">>, <<"N", "o">>}

\* a < b on str: at the first position where they differ the code points
\* decide; a proper prefix is smaller.
StrLessShorterFirst(a, b) ==
    \/ Len(a) < Len(b)
    \/ /\ Len(a) = Len(b)
       /\ \E i \in 1..Len(a) :
             a[i] < b[i] /\ \A j \in 1..(i - 1) : a[j] = b[j]

StrLess(a, b) ==
    LET n == Min(Len(a), Len(b))
        differ == {i \in 1..n : a[i] # b[i]}
        at == CHOOSE i \in differ : \A j \in differ : i <= j
    IN  IF differ = {} THEN Len(a) < Len(b) ELSE a[at] < b[at]

\* sorted(keys): ascending.
RECURSIVE Sorted(_)
Sorted(S) ==
    IF S = {} THEN <<>>
    ELSE LET least == CHOOSE x \in S : \A y \in S : ~StrLess(y, x)
         IN  <<least>> \o Sorted(S \ {least})

\* max(list): an item no other item is greater than.
PyMax(list) == CHOOSE x \in Range(list) : \A y \in Range(list) : ~StrLess(x, y)

\* Lines 198-199: the option if given, else the greatest key.
SelectVersion(option, versions) ==
    IF option # NotGiven THEN option ELSE PyMax(Sorted(versions))

\* str.lower() on the first character of an answer.
LowerAnswerChar(c) == CASE c = "Y" -> "y" [] c = "N" -> "n" [] OTHER -> c

\* Line 228: accept and accept[0].lower() != "y"
AcceptRefused(answer) == answer # <<>> /\ LowerAnswerChar(answer[1]) # "y"

\* Line 235: delete and delete[0].lower != "y". The right side compares the
\* method delete[0].lower, which is not called, with a str: always unequal.
DeleteRefused(answer) == answer # <<>> /\ TRUE

\* Line 193: the test of the flag.
ShowVersionsFromOtherFlag == args.get_complete_manifest

ShowVersionsGiven == args.show_versions

Exit(code) ==
    /\ exit_code' = code
    /\ mpc' = "exited"

\* Lines 108-109: download retries until the document has arrived.
DownloadMainManifest ==
    /\ mpc = "main_manifest"
    /\ manifest_fetches' = manifest_fetches + 1
    /\ mpc' = "vs_manifest"
    /\ UNCHANGED <<args, msvc_versions, sdk_versions, vsix_left, msvc_version,
                   sdk_version, payload_downloads, printed, output, accept,
                   delete, asked_delete, exit_code>>
    /\ UNCHANGED notMain

\* Lines 111-139: the VS manifest, the package index and its two dumps.
DownloadVsManifest ==
    /\ mpc = "vs_manifest"
    /\ manifest_fetches' = manifest_fetches + 1
    /\ mpc' = "complete_manifest"
    /\ UNCHANGED <<args, msvc_versions, sdk_versions, vsix_left, msvc_version,
                   sdk_version, payload_downloads, printed, output, accept,
                   delete, asked_delete, exit_code>>
    /\ UNCHANGED notMain

\* Lines 169-170 with 143-163, one Vsix package: its payload is downloaded;
\* on a digest mismatch line 63 raises NameError (pkg is not bound yet).
GetPackageManifest ==
    /\ mpc = "complete_manifest"
    /\ args.get_complete_manifest
    /\ vsix_left > 0
    /\ vsix_left' = vsix_left - 1
    /\ payload_downloads' = payload_downloads + 1
    /\ \E digestMatches \in BOOLEAN :
          IF digestMatches THEN UNCHANGED <<exit_code, mpc>> ELSE Exit("1")
    /\ UNCHANGED <<args, msvc_versions, sdk_versions, msvc_version, sdk_version,
                   manifest_fetches, printed, output, accept, delete,
                   asked_delete>>
    /\ UNCHANGED notMain

\* Line 166 is false, or lines 171-174 after the loop; then lines 177-191.
CompleteManifestDone ==
    /\ mpc = "complete_manifest"
    /\ ~args.get_complete_manifest \/ vsix_left = 0
    /\ mpc' = "versions"
    /\ UNCHANGED <<args, msvc_versions, sdk_versions, vsix_left, msvc_version,
                   sdk_version, manifest_fetches, payload_downloads, printed,
                   output, accept, delete, asked_delete, exit_code>>
    /\ UNCHANGED notMain

\* Lines 193-196.
ShowVersions ==
    /\ mpc = "versions"
    /\ IF ShowVersionsGiven
         THEN /\ printed' = TRUE
              /\ Exit("0")
         ELSE /\ mpc' = "select"
              /\ UNCHANGED <<printed, exit_code>>
    /\ UNCHANGED <<args, msvc_versions, sdk_versions, vsix_left, msvc_version,
                   sdk_version, manifest_fetches, payload_downloads, output,
                   accept, delete, asked_delete>>
    /\ UNCHANGED notMain

\* Lines 198-212: max() of an empty list raises ValueError; a version that is
\* not a key ends the run with a message (exit code 1).
SelectVersions ==
    /\ mpc = "select"
    /\ IF \/ (args.msvc_version = NotGiven /\ msvc_versions = {})
          \/ (args.sdk_version = NotGiven /\ sdk_versions = {})
         THEN /\ Exit("1")
              /\ UNCHANGED <<msvc_version, sdk_version>>
         ELSE /\ msvc_version' = SelectVersion(args.msvc_version, msvc_versions)
              /\ sdk_version' = SelectVersion(args.sdk_version, sdk_versions)
              /\ IF msvc_version' \in msvc_versions /\ sdk_version' \in sdk_versions
                   THEN /\ mpc' = "license"
                        /\ UNCHANGED exit_code
                   ELSE Exit("1")
    /\ UNCHANGED <<args, msvc_versions, sdk_versions, vsix_left, manifest_fetches,
                   payload_downloads, printed, output, accept, delete,
                   asked_delete>>
    /\ UNCHANGED notMain

\* Lines 219-229.
License ==
    /\ mpc = "license"
    /\ IF args.accept_license
         THEN /\ mpc' = "output"
              /\ UNCHANGED <<accept, exit_code>>
         ELSE \E answer \in Answers :
                /\ accept' = answer
                /\ IF AcceptRefused(answer)
                     THEN Exit("0")
                     ELSE /\ mpc' = "output"
                          /\ UNCHANGED exit_code
    /\ UNCHANGED <<args, msvc_versions, sdk_versions, vsix_left, msvc_version,
                   sdk_version, manifest_fetches, payload_downloads, printed,
                   output, delete, asked_delete>>
    /\ UNCHANGED notMain

\* Lines 233-238.
ClearOutput ==
    /\ mpc = "output"
    /\ IF output = "old"
         THEN /\ asked_delete' = TRUE
              /\ \E answer \in Answers :
                    /\ delete' = answer
                    /\ IF DeleteRefused(answer)
                         THEN /\ Exit("1")
                              /\ UNCHANGED output
                         ELSE /\ output' = "fresh"
                              /\ mpc' = "download_msvc"
                              /\ UNCHANGED exit_code
         ELSE /\ output' = "fresh"
              /\ mpc' = "download_msvc"
              /\ UNCHANGED <<delete, asked_delete, exit_code>>
    /\ UNCHANGED <<args, msvc_versions, sdk_versions, vsix_left, msvc_version,
                   sdk_version, manifest_fetches, payload_downloads, printed,
                   accept>>
    /\ UNCHANGED notMain

\* Line 104 (the command line), the manifest the server holds, and OUTPUT as
\* the run finds it.
MainInit ==
    /\ args \in [show_versions : BOOLEAN, accept_license : BOOLEAN,
                 get_complete_manifest : BOOLEAN,
                 msvc_version : {NotGiven, v14_40, v14_50},
                 sdk_version : {NotGiven, sdk20348}]
    /\ msvc_versions \in SUBSET MsvcVersionPool
    /\ sdk_versions \in SUBSET SdkVersionPool
    /\ vsix_left \in 0..MaxVsixPackages
    /\ msvc_version = NotGiven /\ sdk_version = NotGiven
    /\ manifest_fetches = 0 /\ payload_downloads = 0
    /\ printed = FALSE
    /\ output \in {"absent", "old"}
    /\ accept = <<>> /\ delete = <<>> /\ asked_delete = FALSE
    /\ exit_code = "none"
    /\ mpc = "main_manifest"

MainIdle ==
    /\ args = [show_versions |-> FALSE, accept_license |-> FALSE,
               get_complete_manifest |-> FALSE, msvc_version |-> NotGiven,
               sdk_version |-> NotGiven]
    /\ msvc_versions = {} /\ sdk_versions = {} /\ vsix_left = 0
    /\ msvc_version = NotGiven /\ sdk_version = NotGiven
    /\ manifest_fetches = 0 /\ payload_downloads = 0
    /\ printed = FALSE /\ output = "absent"
    /\ accept = <<>> /\ delete = <<>> /\ asked_delete = FALSE
    /\ exit_code = "none" /\ mpc = "idle"

(***************************************************************************)
(* The specifications.                                                     *)
(***************************************************************************)
InitDeps == DepsInit /\ FetchIdle /\ CabsIdle /\ ZipIdle /\ MainIdle

NextDeps ==
    \/ GetPackageEnter
    \/ GetPackageDependency
    \/ GetPackagePayloads

SpecDeps == InitDeps /\ [][NextDeps]_vars

InitFetch == FetchInit /\ DepsIdle /\ CabsIdle /\ ZipIdle /\ MainIdle

NextFetch ==
    \/ UrlOpenFails
    \/ UrlOpen
    \/ ReadBlock
    \/ ReadFails
    \/ ReadEnd
    \/ Extract

SpecFetch == InitFetch /\ [][NextFetch]_vars

InitCabs == CabsInit /\ DepsIdle /\ FetchIdle /\ ZipIdle /\ MainIdle

NextCabs ==
    \/ CabScanYield
    \/ CabScanReturn

SpecCabs == InitCabs /\ [][NextCabs]_vars
InitZip == ZipInit /\ DepsIdle /\ FetchIdle /\ CabsIdle /\ MainIdle

NextZip ==
    \/ ExtractEntry
    \/ ExtractDone

SpecZip == InitZip /\ [][NextZip]_vars
Init == MainInit /\ DepsIdle /\ FetchIdle /\ CabsIdle /\ ZipIdle

Next ==
    \/ DownloadMainManifest
    \/ DownloadVsManifest
    \/ GetPackageManifest
    \/ CompleteManifestDone
    \/ ShowVersions
    \/ SelectVersions
    \/ License
    \/ ClearOutput

Spec == Init /\ [][Next]_vars

(***************************************************************************)
(* The claims.                                                             *)
(***************************************************************************)
\* The ids reachable from the root along dependency edges (key of a string
\* entry, id of an object entry).
Successors(p) ==
    UNION {DepTarget(packages[p].dependencies[i]) :
              i \in 1..Len(packages[p].dependencies)}

RECURSIVE ReachableFrom(_)
ReachableFrom(S) ==
    LET T == S \cup UNION {Successors(p) : p \in S}
    IN  IF T = S THEN S ELSE ReachableFrom(T)

\* C1: the dependency walk terminates on every graph, cycles included: an id
\* already reached is never walked again, so the walk makes at most one visit
\* per distinct id and never exhausts the call stack.
C1_EachIdWalkedOnce ==
    /\ dstatus # "RecursionError"
    /\ \A p \in Ids : Count(walked, p) <= 1

\* C2: when the walk from the root returns, the recorded closure has no id
\* twice and is the set of ids reachable from the root; packages without an
\* extractable payload are in it and contribute no files.
C2_ClosureIsReachableSet ==
    dstatus = "returned" =>
        /\ NoDuplicates(already_gotten_packages)
        /\ Range(already_gotten_packages) = ReachableFrom({Root})
        /\ \A p \in Ids : ~Extractable(packages[p]) => p \notin files

\* The call went as far as the comparison of line 62.
ReachedDigestCheck == fstatus \in {"returned", "exit", "NameError"}

\* C3: the call never returns data whose digest differs, case-insensitively,
\* from the declared checksum; on a mismatch the run ends; and no extraction
\* step runs on a file whose content has not passed the check.
C3_OnlyVerifiedPayloads ==
    /\ fstatus = "returned" => Lower(check) = sha256hex(returned)
    /\ (ReachedDigestCheck /\ Lower(check) # sha256hex(data))
          => fstatus \in {"exit", "NameError"}
    /\ extracted => (fstatus = "returned" /\ f = returned
                     /\ Lower(check) = sha256hex(f))

\* C3 witness: a payload declared with an uppercase checksum was returned and
\* extracted.
C3_Witness ==
    /\ fstatus = "returned" /\ extracted
    /\ returned # <<>>
    /\ check # sha256hex(returned)

\* C4: when an attempt failed after delivering blocks and a later attempt
\* delivers the complete payload, whose digest is the declared checksum, the
\* call returns exactly the payload and the file holds exactly the payload.
C4_RetryDeliversExactPayload ==
    (/\ ReachedDigestCheck
     /\ partial
     /\ size = Len(payload)
     /\ Lower(check) = sha256hex(payload))
        => (fstatus = "returned" /\ returned = payload /\ f = payload)

\* C9: a response without Content-Length (or with a length of zero) does not
\* stop the transfer: the bytes are streamed and the digest is checked.
C9_TransferCompletesWithoutLength ==
    fstatus \notin {"TypeError", "ZeroDivisionError"}

\* Every 0-based offset at which the marker occurs in the installer.
Occurrences == {i \in 0..Len(msi) : MatchesAt(msi, Marker, i)}

\* The k-th occurrence from the left.
Occurrence(k) ==
    CHOOSE i \in Occurrences : Cardinality({j \in Occurrences : j < i}) = k - 1

\* The 36 bytes that end with the marker at offset i.
NameEndingAt(i) == SubSeq(msi, i - 31, i + 4)

ExpectedCabs == [k \in 1..Cardinality(Occurrences) |-> NameEndingAt(Occurrence(k))]

EveryMarkerHasAName == \A i \in Occurrences : i >= 32

\* What the claim says of the scan: no failure, the names yielded so far are
\* the names at the first occurrences, in order, one per occurrence and no
\* two matches overlapping, and all of them once the scan is over.
ScanYieldsExpectedCabs ==
    /\ cstatus # "UnicodeDecodeError"
    /\ Len(cabs) <= Len(ExpectedCabs)
    /\ \A k \in 1..Len(cabs) : cabs[k] = ExpectedCabs[k]
    /\ (cstatus = "scan" /\ cabs # <<>>) => index = Occurrence(Len(cabs))
    /\ \A k \in 2..Len(cabs) : Occurrence(k) >= Occurrence(k - 1) + 4
    /\ cstatus = "done" => cabs = ExpectedCabs

\* C5 as stated: in a buffer with N occurrences of ".cab", each preceded by
\* 32 arbitrary bytes, the scan yields the N names of 36 bytes, in order.
C5_ScanYieldsEveryName == EveryMarkerHasAName => ScanYieldsExpectedCabs

\* C5 amended: the same, when the 36 bytes of every name are ASCII.
C5_ScanYieldsEveryAsciiName ==
    (EveryMarkerHasAName /\ \A i \in Occurrences : IsAscii(NameEndingAt(i)))
        => ScanYieldsExpectedCabs

\* C5 witness: a finished scan of a buffer with two names, back to back.
C5_Witness ==
    /\ cstatus = "done"
    /\ EveryMarkerHasAName
    /\ Len(cabs) = 2
    /\ Occurrence(2) = Occurrence(1) + 4

\* A resolved path strictly inside the output root.
UnderOutput(place) ==
    Len(place) > Len(OUTPUT) /\ SubSeq(place, 1, Len(OUTPUT)) = OUTPUT

\* C8: extraction writes a file only for an entry under "Contents/", at the
\* path left when the prefix is stripped, under the output root; an entry
\* whose stripped path leaves the output root is rejected, so that no file is
\* ever written outside the output root.
C8_WritesOnlyUnderOutput ==
    \A place \in written :
        /\ UnderOutput(place)
        /\ \E k \in 1..(zi - 1) :
              /\ StartsWithContents(namelist[k])
              /\ place = OUTPUT \o Tail(PathParts(namelist[k]))

\* C6 as stated: with the candidates "14.38", "14.40" and "14.9" and no
\* override, the version selected is "14.40".
C6_SelectsV14_40 ==
    (/\ msvc_versions = {v14_38, v14_40, v14_9}
     /\ args.msvc_version = NotGiven
     /\ msvc_version # NotGiven)
        => msvc_version = v14_40

\* C6 amended: with these candidates and no override, the version selected
\* under the string maximum is "14.9".
C6_SelectsV14_9 ==
    (/\ msvc_versions = {v14_38, v14_40, v14_9}
     /\ args.msvc_version = NotGiven
     /\ msvc_version # NotGiven)
        => msvc_version = v14_9

\* C6 witness: the selection ran on these candidates without an override.
C6_Witness ==
    /\ msvc_versions = {v14_38, v14_40, v14_9}
    /\ args.msvc_version = NotGiven
    /\ mpc = "license"
    /\ msvc_version = v14_9

\* What --show-versions promises: no payload is downloaded, the run goes no
\* further than the listing, and it ends only by printing the versions, with
\* exit code 0, after the two manifest documents.
ListsVersionsOnly ==
    /\ payload_downloads = 0
    /\ mpc \in {"main_manifest", "vs_manifest", "complete_manifest", "versions",
                "exited"}
    /\ output # "fresh"
    /\ mpc = "exited" => (printed /\ exit_code = "0" /\ manifest_fetches = 2)

\* C7 as stated: whenever --show-versions is given, whatever the other flags.
C7_ShowVersionsNeverDownloads == args.show_versions => ListsVersionsOnly

\* C7 amended: whenever --show-versions is given without
\* --get-complete-manifest.
C7_ShowVersionsAloneNeverDownloads ==
    (args.show_versions /\ ~args.get_complete_manifest) => ListsVersionsOnly

\* C7 witness: a listing run that has ended, with other options set.
C7_Witness ==
    /\ args.show_versions /\ ~args.get_complete_manifest
    /\ args.accept_license /\ args.msvc_version # NotGiven
    /\ vsix_left > 0
    /\ mpc = "exited" /\ printed

\* An answer that starts with 'y' or 'Y'.
Affirmative(answer) == answer # <<>> /\ answer[1] \in {"y", "Y"}

\* C10: an existing output directory is deleted only on an affirmative
\* answer, after which the run goes on into a fresh directory; on every
\* other answer the run ends with the directory untouched.
C10_DeletesOnlyOnYes ==
    asked_delete =>
        IF Affirmative(delete)
          THEN output = "fresh" /\ mpc = "download_msvc"
          ELSE output = "old" /\ mpc = "exited"

====
